---- MODULE Spec2Model ----
(***************************************************************************)
(* Asynchronous thumbnail pipeline of the image-thumbnail API:             *)
(* app/routers/uploads.py (upload, detached worker, delete, status query), *)
(* app/routers/thumbnail_service.py (resize) and app/models.py (rows).     *)
(*                                                                         *)
(* Granularity.  upload_image and the detached worker are cut at their     *)
(* database round trips (commit / refresh / query), because other requests *)
(* run on other threads with their own sessions between them.  delete and  *)
(* the status query are one transaction each and are taken as one step.    *)
(* Database statements themselves are assumed not to fail for reasons      *)
(* outside the program (connection loss); a statement that targets a row   *)
(* removed by another session does fail and is modelled.                   *)
(***************************************************************************)
EXTENDS Integers, Sequences, FiniteSets, Bags, TLC

(* ---------------------------------------------------------------- bounds *)
MaxUploads == 2          \* upload requests issued in one behaviour
MaxSide == 8             \* source widths and heights 1 .. MaxSide are resized
MaxBox == 4              \* into boxes of widths and heights 1 .. MaxBox
MaxDownloads == 2        \* downloads whose copy is under way at one time

(* ------------------------------------------------------ program constants *)
MAX_FILE_SIZE_MB == 10
\* a MIME string "type/subtype" is the pair << type, subtype >>
ALLOWED_TYPES ==
    {<<"image", "jpeg">>, <<"image", "png">>, <<"image", "gif">>,
     <<"image", "webp">>, <<"image", "svg+xml">>, <<"image", "heic">>,
     <<"image", "heif">>, <<"image", "avif">>}
UPLOAD_DIR == "uploads"
DOWNLOAD_DIR == "downloads"
THUMBNAIL_DIR == "uploads/thumbnails"
thumbnail_width == 500
thumbnail_height == 500

max_bytes == MAX_FILE_SIZE_MB * 1024 * 1024

(* ------------------------------------------------------------ input sets *)
Users == {"alice", "bob"}
\* the users who upload; every user may delete and query
Uploaders == {"alice"}
\* declared content types offered by clients: an allowed one, an image/* type
\* outside the allow-list, and a non-image type
ContentTypes == {<<"image", "png">>, <<"image", "bmp">>, <<"text", "plain">>}
\* len(content) of the uploaded bytes
Sizes == {max_bytes, max_bytes + 1}
\* declared filenames, as sequences of characters: every upload declares
\* "photo.PNG", so that only the token can keep the stored names apart
Filenames == { << "p", "h", "o", "t", "o", ".", "P", "N", "G" >> }
\* what the uploaded bytes decode to: nothing, or an image of a given size
Corrupt == [decodable |-> FALSE, w |-> 0, h |-> 0]
Contents == {Corrupt, [decodable |-> TRUE, w |-> 2000, h |-> 1000]}

(* a nullable column / field: None or Some(v) *)
None == << >>
Some(v) == << v >>

VARIABLES
    files,        \* path -> bytes written there (the disk)
    images,       \* image id -> row of table "images"
    thumbnails,   \* thumbnail id -> row of table "thumbnails"
    uploads,      \* upload request number -> the request's progress and response
    tasks,        \* thumbnail id -> the detached create_thumbnail_background run
    lastResp,     \* the status query answered by the step just taken, if any
    copies        \* bag of the shutil.copyfile calls of download_image under way

vars == << files, images, thumbnails, uploads, tasks, lastResp, copies >>

(* --------------------------------------------------------------- helpers *)
\* f with key k bound to v (insert or overwrite)
Put(f, k, v) == [x \in DOMAIN f \cup {k} |-> IF x = k THEN v ELSE f[x]]
\* f without the keys in ks
Drop(f, ks) == [x \in DOMAIN f \ ks |-> f[x]]

\* file.content_type.startswith("image/")
StartsWithImage(ct) == ct[1] = "image"

\* validate_image without its content-type check
validate_image_NoTypeCheck(content_type, size) ==
    IF size > max_bytes THEN 400 ELSE 0

\* validate_image rejecting a file of exactly the maximum size
validate_image_SizeGE(content_type, size) ==
    IF content_type \notin ALLOWED_TYPES THEN 400
    ELSE IF size >= max_bytes THEN 400
    ELSE 0

\* validate_image: the HTTP status it raises, or 0 when it returns
validate_image(content_type, size) ==
    IF content_type \notin ALLOWED_TYPES THEN 400
    ELSE IF size > max_bytes THEN 400
    ELSE 0

\* uuid.uuid4(): the k-th identifier drawn while serving upload request u
\* (1 the filename token, 2 the images key, 3 the thumbnails key); distinct
\* draws give distinct identifiers
uuid4(u, k) == 3 * (u - 1) + k

\* str.lower() on the characters a filename is made of
Uppers == << "A", "B", "C", "D", "E", "F", "G", "H", "I", "J", "K", "L", "M",
             "N", "O", "P", "Q", "R", "S", "T", "U", "V", "W", "X", "Y", "Z" >>
Lowers == << "a", "b", "c", "d", "e", "f", "g", "h", "i", "j", "k", "l", "m",
             "n", "o", "p", "q", "r", "s", "t", "u", "v", "w", "x", "y", "z" >>
LowerChar(c) ==
    IF \E i \in DOMAIN Uppers : Uppers[i] = c
    THEN Lowers[CHOOSE i \in DOMAIN Uppers : Uppers[i] = c]
    ELSE c
Lower(s) == [i \in DOMAIN s |-> LowerChar(s[i])]

\* Path(name).suffix for a name without directories: from the last dot on,
\* or empty when there is no dot or the last dot begins or ends the name
Suffix(name) ==
    LET dots == {i \in DOMAIN name : name[i] = "."}
    IN IF dots = {} THEN << >>
       ELSE LET i == CHOOSE d \in dots : \A e \in dots : e <= d
            IN IF i = 1 \/ i = Len(name) THEN << >>
               ELSE SubSeq(name, i, Len(name))

\* the file stored under the name the client declared
generate_filename_Declared(token, original_filename) ==
    << original_filename, << >> >>

\* generate_filename: f"{uuid.uuid4().hex}{extension}", the pair of the
\* token and the lower-cased suffix of the declared name
generate_filename(token, original_filename) ==
    << token, Lower(Suffix(original_filename)) >>

\* the row built by create_db_record
ImageRow(filename, content_type, size, path, owner_id) ==
    [filename |-> filename, content_type |-> content_type, size |-> size,
     path |-> Some(path), owner_id |-> owner_id]

\* the row built by models.Thumbnail(image_id=, width=, height=, status=)
ThumbnailRow(image_id, width, height, status) ==
    [image_id |-> image_id, width |-> Some(width), height |-> Some(height),
     path |-> None, status |-> status]

\* the response of an upload request
UploadError(code) ==
    [code |-> code, image_id |-> None, thumbnail_id |-> None,
     thumbnail_status |-> None]
\* the upload response carrying the image's key as the thumbnail's
UploadResult_WrongId(image_id, thumbnail_id) ==
    [code |-> 201, image_id |-> Some(image_id),
     thumbnail_id |-> Some(image_id), thumbnail_status |-> Some("pending")]

UploadResult(image_id, thumbnail_id) ==
    [code |-> 201, image_id |-> Some(image_id),
     thumbnail_id |-> Some(thumbnail_id), thumbnail_status |-> Some("pending")]
NoResponse == UploadError(0)

\* the response of a status query
Response(op, code, user, id, body) ==
    [op |-> op, code |-> code, user |-> user, id |-> id, body |-> body]
NoQuery == Response("none", 0, "", 0, None)

\* the request-scoped Session given to upload request u by Depends(get_db)
RequestSession(u) == << "request", u >>

Init ==
    /\ files = << >>
    /\ images = << >>
    /\ thumbnails = << >>
    /\ uploads = << >>
    /\ tasks = << >>
    /\ lastResp = NoQuery
    /\ copies = EmptyBag

(* ------------------------------------------------------------ upload_image *)
\* a new POST /upload: the startswith check, file.read(), validate_image,
\* generate_filename and save_image
\* the handler going on to create_db_record without save_image having run
UploadValidateAndSave_NoSave(user, original_filename, content_type, size, content) ==
    /\ Len(uploads) < MaxUploads
    /\ LET u == Len(uploads) + 1
           req == [pc |-> "rejected", user |-> user,
                   filename |-> original_filename, content_type |-> content_type,
                   size |-> size, db |-> RequestSession(u), filepath |-> None,
                   image_id |-> None, thumbnail_id |-> None,
                   resp |-> UploadError(400)]
       IN IF ~StartsWithImage(content_type)
          THEN uploads' = Append(uploads, req)
          ELSE IF validate_image(content_type, size) # 0
          THEN uploads' = Append(uploads, req)
          ELSE LET filename == generate_filename(uuid4(u, 1), original_filename)
                   filepath == << UPLOAD_DIR, filename >>
               IN uploads' = Append(uploads,
                     [req EXCEPT !.pc = "record", !.filepath = Some(filepath),
                                 !.resp = NoResponse])
    /\ UNCHANGED << files, images, thumbnails, tasks >>
    /\ lastResp' = NoQuery
    /\ UNCHANGED copies

UploadValidateAndSave(user, original_filename, content_type, size, content) ==
    /\ Len(uploads) < MaxUploads
    /\ LET u == Len(uploads) + 1
           req == [pc |-> "rejected", user |-> user,
                   filename |-> original_filename, content_type |-> content_type,
                   size |-> size, db |-> RequestSession(u), filepath |-> None,
                   image_id |-> None, thumbnail_id |-> None,
                   resp |-> UploadError(400)]
       IN IF ~StartsWithImage(content_type)
          THEN /\ uploads' = Append(uploads, req)
               /\ UNCHANGED files
          ELSE IF validate_image(content_type, size) # 0
          THEN /\ uploads' = Append(uploads, req)
               /\ UNCHANGED files
          ELSE LET filename == generate_filename(uuid4(u, 1), original_filename)
                   filepath == << UPLOAD_DIR, filename >>
               IN /\ files' = Put(files, filepath, content)
                  /\ uploads' = Append(uploads,
                        [req EXCEPT !.pc = "record", !.filepath = Some(filepath),
                                    !.resp = NoResponse])
    /\ UNCHANGED << images, thumbnails, tasks >>
    /\ lastResp' = NoQuery
    /\ UNCHANGED copies

\* create_db_record: insert the images row and commit
UploadCreateDbRecord(u) ==
    /\ uploads[u].pc = "record"
    /\ LET r == uploads[u]
           id == uuid4(u, 2)
           filepath == r.filepath[1]
       IN /\ images' = Put(images, id,
                 ImageRow(filepath[2], r.content_type, r.size, filepath, r.user))
          /\ uploads' = [uploads EXCEPT ![u].pc = "thumbnail",
                                        ![u].image_id = Some(id)]
    /\ UNCHANGED << files, thumbnails, tasks >>
    /\ lastResp' = NoQuery
    /\ UNCHANGED copies

\* add_task called before the thumbnails row is added and committed
UploadCreateThumbnail_ScheduleBeforeCommit(u) ==
    /\ uploads[u].pc = "thumbnail"
    /\ LET r == uploads[u]
           id == uuid4(u, 3)
       IN /\ tasks' = Put(tasks, id,
                 [pc |-> "scheduled", db |-> r.db, image_id |-> r.image_id[1],
                  image_path |-> r.filepath[1], thumbnail_id |-> id,
                  width |-> thumbnail_width, height |-> thumbnail_height,
                  outcome |-> "none", actual |-> None])
          /\ uploads' = [uploads EXCEPT ![u].pc = "respond",
                                        ![u].thumbnail_id = Some(id)]
    /\ UNCHANGED << files, images, thumbnails >>
    /\ lastResp' = NoQuery
    /\ UNCHANGED copies

\* db.refresh(db_image), then insert the pending thumbnails row and commit;
\* both raise (a 500) when the images row was deleted in the meantime
UploadCreateThumbnail(u) ==
    /\ uploads[u].pc = "thumbnail"
    /\ LET image_id == uploads[u].image_id[1]
           id == uuid4(u, 3)
       IN IF image_id \notin DOMAIN images
          THEN /\ uploads' = [uploads EXCEPT ![u].pc = "error",
                                             ![u].resp = UploadError(500)]
               /\ UNCHANGED thumbnails
          ELSE /\ thumbnails' = Put(thumbnails, id,
                      ThumbnailRow(image_id, thumbnail_width, thumbnail_height,
                                   "pending"))
               /\ uploads' = [uploads EXCEPT ![u].pc = "respond",
                                             ![u].thumbnail_id = Some(id)]
    /\ UNCHANGED << files, images, tasks >>
    /\ lastResp' = NoQuery
    /\ UNCHANGED copies

\* the detached run registered by background_tasks.add_task
NewTask(db, image_id, image_path, thumbnail_id, width, height) ==
    [pc |-> "scheduled", db |-> db, image_id |-> image_id,
     image_path |-> image_path, thumbnail_id |-> thumbnail_id,
     width |-> width, height |-> height, outcome |-> "none", actual |-> None]

\* db.refresh(db_thumbnail) (raises when the row is gone), add_task, return
UploadRespond(u) ==
    /\ uploads[u].pc = "respond"
    /\ LET r == uploads[u]
           thumbnail_id == r.thumbnail_id[1]
       IN IF thumbnail_id \notin DOMAIN thumbnails
          THEN /\ uploads' = [uploads EXCEPT ![u].pc = "error",
                                             ![u].resp = UploadError(500)]
               /\ UNCHANGED tasks
          ELSE /\ tasks' = Put(tasks, thumbnail_id,
                      NewTask(r.db, r.image_id[1], r.filepath[1], thumbnail_id,
                              thumbnail_width, thumbnail_height))
               /\ uploads' = [uploads EXCEPT ![u].pc = "done",
                      ![u].resp = UploadResult(r.image_id[1], thumbnail_id)]
    /\ UNCHANGED << files, images, thumbnails >>
    /\ lastResp' = NoQuery
    /\ UNCHANGED copies

(* ------------------------------------------------------- thumbnail_service *)
Abs(n) == IF n < 0 THEN -n ELSE n
Max(a, b) == IF a >= b THEN a ELSE b
\* math.floor and math.ceil of the rational p/q, q > 0, p >= 0
FloorDiv(p, q) == p \div q
CeilDiv(p, q) == IF p % q = 0 THEN p \div q ELSE (p \div q) + 1

\* img.thumbnail scaling every image to touch the box, smaller ones too
ThumbnailSize_NoClamp(sw, sh, x, y) ==
    IF x * sh >= sw * y
    THEN << Max(FloorDiv(y * sw, sh), 1), y >>
    ELSE << x, Max(FloorDiv(x * sh, sw), 1) >>

\* img.thumbnail replaced by a resize to the box itself
ThumbnailSize_Stretch(sw, sh, x, y) ==
    IF x >= sw /\ y >= sh THEN << sw, sh >> ELSE << x, y >>

\* img.thumbnail((x, y), LANCZOS): the size of the image afterwards, as
\* Image.thumbnail computes it.  The image is left alone when the box is no
\* smaller than it; otherwise one side is the box's and the other is the
\* floor or the ceiling of the exact side, whichever is nearer the source's
\* aspect ratio (the floor on a tie), and at least 1.
ThumbnailSize(sw, sh, x, y) ==
    IF x >= sw /\ y >= sh THEN << sw, sh >>
    ELSE IF x * sh >= sw * y
    THEN \* x / y >= aspect: keep y, x = y * aspect rounded
         LET lo == FloorDiv(y * sw, sh)
             hi == CeilDiv(y * sw, sh)
             \* key(n) = |aspect - n / y|, scaled by sh * y
             key(n) == Abs(sw * y - n * sh)
         IN << Max(IF key(lo) <= key(hi) THEN lo ELSE hi, 1), y >>
    ELSE \* keep x, y = x / aspect rounded
         LET lo == FloorDiv(x * sh, sw)
             hi == CeilDiv(x * sh, sw)
             \* key(n) = 0 if n = 0, else |aspect - x / n|; compared
             \* cross-multiplied by sh * lo * hi
             lower == IF lo = 0 THEN TRUE
                      ELSE Abs(sw * lo - x * sh) * hi <= Abs(sw * hi - x * sh) * lo
         IN << x, Max(IF lower THEN lo ELSE hi, 1) >>

\* generate_thumbnail: "missing" / "decode" / "write" when it raises, "ok"
\* when it returns; write_ok is whether img.save succeeds
GenerateOutcome(fs, source_path, write_ok) ==
    IF source_path \notin DOMAIN fs THEN "missing"
    ELSE IF ~fs[source_path].decodable THEN "decode"
    ELSE IF ~write_ok THEN "write"
    ELSE "ok"

(* -------------------------------------------- create_thumbnail_background *)
\* the try branch forgetting thumbnail.path
MarkReady_NoPath(row, path, actual_width, actual_height) ==
    [row EXCEPT !.status = "ready",
                !.width = Some(actual_width), !.height = Some(actual_height)]

\* the try branch forgetting the actual dimensions
MarkReady_KeepBox(row, path, actual_width, actual_height) ==
    [row EXCEPT !.status = "ready", !.path = Some(path)]

\* the fields the try branch assigns before db.commit()
MarkReady(row, path, actual_width, actual_height) ==
    [row EXCEPT !.status = "ready", !.path = Some(path),
                !.width = Some(actual_width), !.height = Some(actual_height)]

\* the except branch forgetting thumbnail.status
MarkFailed_Forgot(row) == row

\* the field the except branch assigns before db.commit()
MarkFailed(row) == [row EXCEPT !.status = "failed"]

\* the worker going on to the status update without img.save having run
WorkerGenerate_SaveSkipped(t, write_ok) ==
    /\ tasks[t].pc = "scheduled"
    /\ LET k == tasks[t]
           outcome == GenerateOutcome(files, k.image_path, write_ok)
       IN IF outcome = "ok"
          THEN LET src == files[k.image_path]
                   size == ThumbnailSize(src.w, src.h, k.width, k.height)
               IN tasks' = [tasks EXCEPT ![t].pc = "query_ready",
                                         ![t].outcome = outcome,
                                         ![t].actual = Some(size)]
          ELSE tasks' = [tasks EXCEPT ![t].pc = "query_failed",
                                      ![t].outcome = outcome]
    /\ UNCHANGED << files, images, thumbnails, uploads >>
    /\ lastResp' = NoQuery
    /\ UNCHANGED copies

\* thumbnail_path and the call of generate_thumbnail
WorkerGenerate(t, write_ok) ==
    /\ tasks[t].pc = "scheduled"
    /\ LET k == tasks[t]
           thumbnail_path == << THUMBNAIL_DIR, k.image_id, k.width, k.height >>
           outcome == GenerateOutcome(files, k.image_path, write_ok)
       IN IF outcome = "ok"
          THEN LET src == files[k.image_path]
                   size == ThumbnailSize(src.w, src.h, k.width, k.height)
               IN /\ files' = Put(files, thumbnail_path,
                         [decodable |-> TRUE, w |-> size[1], h |-> size[2]])
                  /\ tasks' = [tasks EXCEPT ![t].pc = "query_ready",
                                            ![t].outcome = outcome,
                                            ![t].actual = Some(size)]
          ELSE /\ tasks' = [tasks EXCEPT ![t].pc = "query_failed",
                                         ![t].outcome = outcome]
               /\ UNCHANGED files
    /\ UNCHANGED << images, thumbnails, uploads >>
    /\ lastResp' = NoQuery
    /\ UNCHANGED copies

\* try branch: db.query(Thumbnail).filter(id == thumbnail_id).first()
WorkerQueryReady(t) ==
    /\ tasks[t].pc = "query_ready"
    /\ tasks' = [tasks EXCEPT ![t].pc =
                    IF t \in DOMAIN thumbnails THEN "commit_ready" ELSE "done"]
    /\ UNCHANGED << files, images, thumbnails, uploads >>
    /\ lastResp' = NoQuery
    /\ UNCHANGED copies

\* the try branch running on into the failure handling after its commit
\* (a finally in place of the except)
WorkerCommitReady_FallsThrough(t) ==
    /\ tasks[t].pc = "commit_ready"
    /\ LET k == tasks[t]
           thumbnail_path == << THUMBNAIL_DIR, k.image_id, k.width, k.height >>
       IN IF t \in DOMAIN thumbnails
          THEN /\ thumbnails' = [thumbnails EXCEPT ![t] =
                      MarkReady(@, thumbnail_path, k.actual[1][1], k.actual[1][2])]
               /\ tasks' = [tasks EXCEPT ![t].pc = "query_failed"]
          ELSE /\ tasks' = [tasks EXCEPT ![t].pc = "raised"]
               /\ UNCHANGED thumbnails
    /\ UNCHANGED << files, images, uploads >>
    /\ lastResp' = NoQuery
    /\ UNCHANGED copies

\* try branch: the assignments and db.commit().  When the row was deleted
\* after the query, the UPDATE matches no row and the flush raises; the
\* except branch then queries through the same, now invalidated, session,
\* which raises again, out of the task.
WorkerCommitReady(t) ==
    /\ tasks[t].pc = "commit_ready"
    /\ LET k == tasks[t]
           thumbnail_path == << THUMBNAIL_DIR, k.image_id, k.width, k.height >>
       IN IF t \in DOMAIN thumbnails
          THEN /\ thumbnails' = [thumbnails EXCEPT ![t] =
                      MarkReady(@, thumbnail_path, k.actual[1][1], k.actual[1][2])]
               /\ tasks' = [tasks EXCEPT ![t].pc = "done"]
          ELSE /\ tasks' = [tasks EXCEPT ![t].pc = "raised"]
               /\ UNCHANGED thumbnails
    /\ UNCHANGED << files, images, uploads >>
    /\ lastResp' = NoQuery
    /\ UNCHANGED copies

\* a worker without the except branch: the exception leaves the task
WorkerQueryFailed_NoHandler(t) ==
    /\ tasks[t].pc = "query_failed"
    /\ tasks' = [tasks EXCEPT ![t].pc = "raised"]
    /\ UNCHANGED << files, images, thumbnails, uploads >>
    /\ lastResp' = NoQuery
    /\ UNCHANGED copies

\* except branch: db.query(Thumbnail).filter(id == thumbnail_id).first()
WorkerQueryFailed(t) ==
    /\ tasks[t].pc = "query_failed"
    /\ tasks' = [tasks EXCEPT ![t].pc =
                    IF t \in DOMAIN thumbnails THEN "commit_failed" ELSE "done"]
    /\ UNCHANGED << files, images, thumbnails, uploads >>
    /\ lastResp' = NoQuery
    /\ UNCHANGED copies

\* the except branch scheduling the generation again after marking failed
WorkerCommitFailed_Retry(t) ==
    /\ tasks[t].pc = "commit_failed"
    /\ IF t \in DOMAIN thumbnails
       THEN /\ thumbnails' = [thumbnails EXCEPT ![t] = MarkFailed(@)]
            /\ tasks' = [tasks EXCEPT ![t].pc = "scheduled"]
       ELSE /\ tasks' = [tasks EXCEPT ![t].pc = "raised"]
            /\ UNCHANGED thumbnails
    /\ UNCHANGED << files, images, uploads >>
    /\ lastResp' = NoQuery
    /\ UNCHANGED copies

\* the except branch updating without the filter on the thumbnail's id:
\* every pending row is marked failed
WorkerCommitFailed_NoFilter(t) ==
    /\ tasks[t].pc = "commit_failed"
    /\ IF t \in DOMAIN thumbnails
       THEN /\ thumbnails' = [s \in DOMAIN thumbnails |->
                   IF thumbnails[s].status = "pending"
                   THEN MarkFailed(thumbnails[s]) ELSE thumbnails[s]]
            /\ tasks' = [tasks EXCEPT ![t].pc = "done"]
       ELSE /\ tasks' = [tasks EXCEPT ![t].pc = "raised"]
            /\ UNCHANGED thumbnails
    /\ UNCHANGED << files, images, uploads >>
    /\ lastResp' = NoQuery
    /\ UNCHANGED copies

\* except branch: the assignment and db.commit(), then print.  When the row
\* was deleted after the query the flush raises inside the handler, out of
\* the task.
WorkerCommitFailed(t) ==
    /\ tasks[t].pc = "commit_failed"
    /\ IF t \in DOMAIN thumbnails
       THEN /\ thumbnails' = [thumbnails EXCEPT ![t] = MarkFailed(@)]
            /\ tasks' = [tasks EXCEPT ![t].pc = "done"]
       ELSE /\ tasks' = [tasks EXCEPT ![t].pc = "raised"]
            /\ UNCHANGED thumbnails
    /\ UNCHANGED << files, images, uploads >>
    /\ lastResp' = NoQuery
    /\ UNCHANGED copies

(* ------------------------------------------------------------ delete_image *)
\* the foreign key declared without ondelete="CASCADE" (and not enforced):
\* the thumbnails rows stay behind
delete_image_NoCascade(user, id) ==
    /\ IF id \notin DOMAIN images
       THEN UNCHANGED images
       ELSE IF images[id].owner_id # user
       THEN UNCHANGED images
       ELSE images' = Drop(images, {id})
    /\ UNCHANGED << files, thumbnails, uploads, tasks >>
    /\ lastResp' = NoQuery
    /\ UNCHANGED copies

\* DELETE /{id}: nothing changes on a 404 or a 403; otherwise the images row
\* is deleted (its thumbnails rows go with it by ON DELETE CASCADE) and the
\* delete is committed.  The response is not part of the state.
delete_image(user, id) ==
    /\ IF id \notin DOMAIN images
       THEN UNCHANGED << images, thumbnails >>
       ELSE IF images[id].owner_id # user
       THEN UNCHANGED << images, thumbnails >>
       ELSE /\ images' = Drop(images, {id})
            /\ thumbnails' = Drop(thumbnails,
                   {t \in DOMAIN thumbnails : thumbnails[t].image_id = id})
    /\ UNCHANGED << files, uploads, tasks >>
    /\ lastResp' = NoQuery
    /\ UNCHANGED copies

(* ---------------------------------------------------- get_thumbnail_status *)
\* the dict returned for a thumbnails row
Snapshot(id, row) ==
    [id |-> id, image_id |-> row.image_id, status |-> row.status,
     width |-> row.width, height |-> row.height, path |-> row.path]

\* the status query without its ownership check
StatusResponse_NoOwnerCheck(user, thumbnail_id) ==
    IF thumbnail_id \notin DOMAIN thumbnails
    THEN Response("status", 404, user, thumbnail_id, None)
    ELSE Response("status", 200, user, thumbnail_id,
                  Some(Snapshot(thumbnail_id, thumbnails[thumbnail_id])))

\* the response of GET /thumbnails/{thumbnail_id}
StatusResponse(user, thumbnail_id) ==
    IF thumbnail_id \notin DOMAIN thumbnails
    THEN Response("status", 404, user, thumbnail_id, None)
    ELSE IF images[thumbnails[thumbnail_id].image_id].owner_id # user
    THEN Response("status", 403, user, thumbnail_id, None)
    ELSE Response("status", 200, user, thumbnail_id,
                  Some(Snapshot(thumbnail_id, thumbnails[thumbnail_id])))

get_thumbnail_status(user, thumbnail_id) ==
    /\ lastResp' = StatusResponse(user, thumbnail_id)
    /\ UNCHANGED << files, images, thumbnails, uploads, tasks, copies >>

(* ------------------------------------------- get_uploads, get_image_metadata *)
\* GET /upload: a query, nothing is written
get_uploads(user) ==
    /\ UNCHANGED << files, images, thumbnails, uploads, tasks, copies >>
    /\ lastResp' = NoQuery

\* GET /{id}: a query (404, 403 or the row), nothing is written
get_image_metadata(user, id) ==
    /\ UNCHANGED << files, images, thumbnails, uploads, tasks, copies >>
    /\ lastResp' = NoQuery

(* ---------------------------------------------------------- download_image *)
\* a file opened for writing and not yet written
Truncated == [decodable |-> FALSE, w |-> 0, h |-> 0]

\* GET /{id}/file up to the opening of the destination by shutil.copyfile:
\* nothing changes on a 404 or a 403; otherwise downloads/<stored name> is
\* opened for writing, which truncates it
DownloadCopyBegin(user, id) ==
    /\ BagCardinality(copies) < MaxDownloads
    /\ IF id \notin DOMAIN images
       THEN UNCHANGED << files, copies >>
       ELSE IF images[id].owner_id # user
       THEN UNCHANGED << files, copies >>
       ELSE LET file_path == images[id].path[1]
                dest_path == << DOWNLOAD_DIR, file_path[2] >>
            IN IF file_path \notin DOMAIN files
               THEN UNCHANGED << files, copies >>
               ELSE /\ files' = Put(files, dest_path, Truncated)
                    /\ copies' = copies (+) SetToBag({[file_path |-> file_path,
                                                       dest_path |-> dest_path]})
    /\ UNCHANGED << images, thumbnails, uploads, tasks >>
    /\ lastResp' = NoQuery

\* shutil.copyfile has written the bytes of the source; the FileResponse is
\* returned
DownloadCopyEnd(c) ==
    /\ BagIn(c, copies)
    /\ files' = Put(files, c.dest_path, files[c.file_path])
    /\ copies' = copies (-) SetToBag({c})
    /\ UNCHANGED << images, thumbnails, uploads, tasks >>
    /\ lastResp' = NoQuery

(* ----------------------------------------------------------- specification *)
\* ids a client may name: the keys handed out to the requests so far (whether
\* or not the row exists) and one never issued
ImageIds == {0} \cup {uuid4(u, 2) : u \in DOMAIN uploads}
ThumbnailIds == {0} \cup {uuid4(u, 3) : u \in DOMAIN uploads}

\* the steps that write: the upload, the worker and the delete
Steps ==
    \/ \E user \in Uploaders, original_filename \in Filenames,
          content_type \in ContentTypes, size \in Sizes, content \in Contents :
          UploadValidateAndSave(user, original_filename, content_type, size,
                                content)
    \/ \E u \in DOMAIN uploads : UploadCreateDbRecord(u)
    \/ \E u \in DOMAIN uploads : UploadCreateThumbnail(u)
    \/ \E u \in DOMAIN uploads : UploadRespond(u)
    \/ \E t \in DOMAIN tasks, write_ok \in BOOLEAN : WorkerGenerate(t, write_ok)
    \/ \E t \in DOMAIN tasks : WorkerQueryReady(t)
    \/ \E t \in DOMAIN tasks : WorkerCommitReady(t)
    \/ \E t \in DOMAIN tasks : WorkerQueryFailed(t)
    \/ \E t \in DOMAIN tasks : WorkerCommitFailed(t)
    \/ \E user \in Users, id \in ImageIds : delete_image(user, id)

Next ==
    \/ Steps
    \/ \E user \in Users, id \in ThumbnailIds : get_thumbnail_status(user, id)

Spec == Init /\ [][Next]_vars

\* every handler of the uploads router, the downloads and the reads included
FileNext ==
    \/ Next
    \/ \E user \in Users : get_uploads(user)
    \/ \E user \in Users, id \in ImageIds : get_image_metadata(user, id)
    \/ \E user \in Users, id \in ImageIds : DownloadCopyBegin(user, id)
    \/ \E c \in BagToSet(copies) : DownloadCopyEnd(c)

FileSpec == Init /\ [][FileNext]_vars

(* ------------------------------------------------ the worker under fairness *)
\* the thumbnail ids the uploads hand out
JobIds == {uuid4(u, 3) : u \in 1 .. MaxUploads}

\* a request handler that has committed its thumbnails row goes on to add_task
\* and returns, and a task the threadpool was given runs each of its steps.
\* The status query writes nothing and answers at once; it is left out of
\* the fair behaviours.
Fairness ==
    /\ \A u \in 1 .. MaxUploads :
          WF_vars(u \in DOMAIN uploads /\ UploadRespond(u))
    /\ \A t \in JobIds :
          /\ WF_vars(t \in DOMAIN tasks
                       /\ \E write_ok \in BOOLEAN : WorkerGenerate(t, write_ok))
          /\ WF_vars(t \in DOMAIN tasks /\ WorkerQueryReady(t))
          /\ WF_vars(t \in DOMAIN tasks /\ WorkerCommitReady(t))
          /\ WF_vars(t \in DOMAIN tasks /\ WorkerQueryFailed(t))
          /\ WF_vars(t \in DOMAIN tasks /\ WorkerCommitFailed(t))

LiveSpec == Init /\ [][Steps]_vars /\ Fairness

(* -------------------------------------------------- the resize on its own *)
\* create_thumbnail_background called for one stored image of any size in
\* SourceSides x SourceSides and any box in BoxSides x BoxSides
SourceSides == (1 .. MaxSide) \cup {300, 400, 1000, 2000}
BoxSides == (1 .. MaxBox) \cup {500}

ResizeInit ==
    \E sw, sh \in SourceSides, bw, bh \in BoxSides,
       original_filename \in Filenames :
        LET filepath == << UPLOAD_DIR,
                          generate_filename(uuid4(1, 1), original_filename) >>
            image_id == uuid4(1, 2)
            thumbnail_id == uuid4(1, 3)
        IN /\ files = Put(<< >>, filepath, [decodable |-> TRUE, w |-> sw, h |-> sh])
           /\ images = Put(<< >>, image_id,
                  ImageRow(filepath[2], << "image", "png" >>, max_bytes, filepath,
                           "alice"))
           /\ thumbnails = Put(<< >>, thumbnail_id,
                  ThumbnailRow(image_id, bw, bh, "pending"))
           /\ uploads = << [pc |-> "done", user |-> "alice",
                            filename |-> original_filename,
                            content_type |-> << "image", "png" >>,
                            size |-> max_bytes, db |-> RequestSession(1),
                            filepath |-> Some(filepath),
                            image_id |-> Some(image_id),
                            thumbnail_id |-> Some(thumbnail_id),
                            resp |-> UploadResult(image_id, thumbnail_id)] >>
           /\ tasks = Put(<< >>, thumbnail_id,
                  NewTask(RequestSession(1), image_id, filepath, thumbnail_id,
                          bw, bh))
           /\ lastResp = NoQuery
           /\ copies = EmptyBag

ResizeNext ==
    \/ \E t \in DOMAIN tasks, write_ok \in BOOLEAN : WorkerGenerate(t, write_ok)
    \/ \E t \in DOMAIN tasks : WorkerQueryReady(t)
    \/ \E t \in DOMAIN tasks : WorkerCommitReady(t)
    \/ \E t \in DOMAIN tasks : WorkerQueryFailed(t)
    \/ \E t \in DOMAIN tasks : WorkerCommitFailed(t)

ResizeSpec == ResizeInit /\ [][ResizeNext]_vars

(* ================================================================= claims *)
Terminal == {"ready", "failed"}
Finished == {"done", "raised"}
GenerationFailures == {"missing", "decode", "write"}

\* the upload request that created thumbnail t
UploadOf(t) == CHOOSE u \in DOMAIN uploads : uploads[u].thumbnail_id = Some(t)

(* C1: a job is created pending, and the only status changes that ever      *)
(* occur are pending -> ready and pending -> failed; ready and failed are   *)
(* never left.                                                              *)
C1_StatusOneWay ==
    [][\A t \in DOMAIN thumbnails' :
          IF t \in DOMAIN thumbnails
          THEN \/ thumbnails'[t].status = thumbnails[t].status
               \/ /\ thumbnails[t].status = "pending"
                  /\ thumbnails'[t].status \in Terminal
          ELSE thumbnails'[t].status = "pending"]_vars

\* one job has become ready and another failed
C1_Witness ==
    \E t1, t2 \in DOMAIN thumbnails :
        thumbnails[t1].status = "ready" /\ thumbnails[t2].status = "failed"

(* C2: for every existing job, the output path is non-null exactly when the *)
(* status is ready.                                                         *)
C2_PathIffReady ==
    \A t \in DOMAIN thumbnails :
        (thumbnails[t].path # None) <=> (thumbnails[t].status = "ready")

\* a ready job with its path next to a failed job without one
C2_Witness ==
    \E t1, t2 \in DOMAIN thumbnails :
        /\ thumbnails[t1].status = "ready" /\ thumbnails[t1].path # None
        /\ thumbnails[t2].status = "failed" /\ thumbnails[t2].path = None

(* C3 as stated: for every existing job, width and height are populated     *)
(* exactly when the status is ready (null while pending or failed).         *)
C3_DimensionsIffReady ==
    \A t \in DOMAIN thumbnails :
        (thumbnails[t].width # None /\ thumbnails[t].height # None)
            <=> (thumbnails[t].status = "ready")

(* C3 amended: width and height are never null.  A pending job holds the    *)
(* requested box 500x500, and the status query reports it; a failed job     *)
(* keeps 500x500; a ready job holds the dimensions the resize returned.     *)
C3_DimensionsAlwaysSet ==
    /\ \A t \in DOMAIN thumbnails :
          /\ thumbnails[t].width # None /\ thumbnails[t].height # None
          /\ thumbnails[t].status \in {"pending", "failed"} =>
                /\ thumbnails[t].width = Some(thumbnail_width)
                /\ thumbnails[t].height = Some(thumbnail_height)
          /\ thumbnails[t].status = "ready" =>
                /\ tasks[t].actual # None
                /\ thumbnails[t].width = Some(tasks[t].actual[1][1])
                /\ thumbnails[t].height = Some(tasks[t].actual[1][2])
    /\ (lastResp.code = 200 /\ lastResp.body[1].status # "ready") =>
          /\ lastResp.body[1].width = Some(thumbnail_width)
          /\ lastResp.body[1].height = Some(thumbnail_height)

\* the status query reports 500x500 for a pending job while another job is
\* ready with the 500x250 its 2000x1000 source was resized to
C3_Witness ==
    /\ lastResp.code = 200
    /\ lastResp.body[1].status = "pending"
    /\ lastResp.body[1].width = Some(500)
    /\ \E t \in DOMAIN thumbnails :
          /\ thumbnails[t].status = "ready"
          /\ thumbnails[t].width = Some(500) /\ thumbnails[t].height = Some(250)

\* the stored state an upload may add to
Persisted == << files, images, thumbnails, tasks >>

\* request u, new in this step, was turned down with a 400 and left every
\* file, row and task as it was
RejectedBeforePersistence(u) ==
    /\ uploads'[u].resp = UploadError(400)
    /\ uploads'[u].filepath = None
    /\ uploads'[u].image_id = None
    /\ uploads'[u].thumbnail_id = None
    /\ Persisted' = Persisted

\* a request that was turned down does nothing later
RejectedStaysRejected ==
    \A u \in DOMAIN uploads :
        uploads[u].resp = UploadError(400) => uploads'[u] = uploads[u]

(* C4: an upload whose declared content type is outside the allow-list is   *)
(* answered 400 before any persistence: no file, no images row, no          *)
(* thumbnails row and no task, then or later.                               *)
C4_UnsupportedTypeRejected ==
    [][/\ \A u \in DOMAIN uploads' \ DOMAIN uploads :
              uploads'[u].content_type \notin ALLOWED_TYPES
                  => RejectedBeforePersistence(u)
       /\ RejectedStaysRejected]_vars

\* a text/plain upload was answered 400 after another upload had been stored
C4_Witness ==
    \E u \in DOMAIN uploads :
        /\ uploads[u].content_type = << "text", "plain" >>
        /\ uploads[u].resp.code = 400
        /\ DOMAIN images # {} /\ DOMAIN thumbnails # {}

(* C5: an upload longer than 10 MiB is answered 400 before any persistence, *)
(* and an upload of an allowed type of at most 10 MiB, exactly 10 MiB       *)
(* included, passes validation and is stored.                               *)
C5_SizeLimit ==
    [][/\ \A u \in DOMAIN uploads' \ DOMAIN uploads :
              /\ uploads'[u].size > 10 * 1024 * 1024
                    => RejectedBeforePersistence(u)
              /\ ( /\ uploads'[u].content_type \in ALLOWED_TYPES
                   /\ uploads'[u].size <= 10 * 1024 * 1024 )
                    => /\ uploads'[u].resp.code # 400
                       /\ uploads'[u].filepath # None
                       /\ uploads'[u].filepath[1] \in DOMAIN files'
       /\ RejectedStaysRejected]_vars

\* an upload of exactly 10 MiB was answered 201 and one of 10 MiB + 1 of an
\* allowed type was answered 400
C5_Witness ==
    \E u1, u2 \in DOMAIN uploads :
        /\ uploads[u1].size = 10485760 /\ uploads[u1].resp.code = 201
        /\ uploads[u2].size = 10485761
        /\ uploads[u2].content_type \in ALLOWED_TYPES
        /\ uploads[u2].resp.code = 400

(* C6: an upload that completes ingestion answers 201 with the new image    *)
(* id, the new job id and "pending"; when the response is determined the    *)
(* job's row is pending and its worker has not started; the response never  *)
(* changes afterwards, whatever the worker does.                            *)
C6_RespondsPendingBeforeWorker ==
    [][\A u \in DOMAIN uploads :
          /\ (uploads[u].pc # "done" /\ uploads'[u].pc = "done") =>
                LET t == uploads[u].thumbnail_id[1] IN
                /\ uploads'[u].resp =
                      [code |-> 201, image_id |-> uploads[u].image_id,
                       thumbnail_id |-> Some(t),
                       thumbnail_status |-> Some("pending")]
                /\ uploads[u].image_id[1] \in DOMAIN images'
                /\ t \in DOMAIN thumbnails'
                /\ thumbnails'[t].status = "pending"
                /\ thumbnails'[t].image_id = uploads[u].image_id[1]
                /\ t \notin DOMAIN tasks
                /\ tasks'[t].pc = "scheduled"
          /\ uploads[u].pc = "done" => uploads'[u].resp = uploads[u].resp
          /\ (uploads[u].thumbnail_id # None
                /\ uploads[u].thumbnail_id[1] \in DOMAIN tasks)
                => uploads[u].resp.code = 201]_vars

\* the upload was answered 201 "pending" and its job has since failed
C6_Witness ==
    \E u \in DOMAIN uploads :
        /\ uploads[u].resp.code = 201
        /\ uploads[u].resp.thumbnail_status = Some("pending")
        /\ uploads[u].thumbnail_id[1] \in DOMAIN thumbnails
        /\ thumbnails[uploads[u].thumbnail_id[1]].status = "failed"

(* C7: when generation failed and the job still exists once the worker has  *)
(* ended, the job is failed and the worker ended without raising; the       *)
(* upload's 201 response stands.                                            *)
C7_FailureAbsorbed ==
    \A t \in DOMAIN tasks :
        ( /\ tasks[t].outcome \in GenerationFailures
          /\ tasks[t].pc \in Finished
          /\ t \in DOMAIN thumbnails )
        => /\ thumbnails[t].status = "failed"
           /\ tasks[t].pc = "done"
           /\ uploads[UploadOf(t)].resp.code = 201

\* a decode failure and a write failure have both ended as failed jobs
C7_Witness ==
    \E t1, t2 \in DOMAIN tasks :
        /\ tasks[t1].outcome = "decode" /\ tasks[t1].pc = "done"
        /\ tasks[t2].outcome = "write" /\ tasks[t2].pc = "done"
        /\ t1 \in DOMAIN thumbnails /\ thumbnails[t1].status = "failed"
        /\ t2 \in DOMAIN thumbnails /\ thumbnails[t2].status = "failed"

(* C8: marking a job ready or failed is a safe no-op when the job's row is  *)
(* gone, wherever in the worker's run the image was deleted: the worker     *)
(* does not recreate the row and does not raise.                            *)
C8_MarkIsSafeNoOp ==
    \A t \in DOMAIN tasks :
        t \notin DOMAIN thumbnails => tasks[t].pc # "raised"

(* C9: the worker runs under a session of its own: the handle it was given  *)
(* is not the session of any request.                                       *)
C9_WorkerOwnSession ==
    \A t \in DOMAIN tasks :
        \A u \in DOMAIN uploads : tasks[t].db # uploads[u].db

C11_CommittedBeforeScheduled ==
    [][/\ \A t \in DOMAIN tasks' \ DOMAIN tasks :
              t \in DOMAIN thumbnails /\ thumbnails[t].status = "pending"
       /\ \A u \in DOMAIN uploads :
              (uploads[u].resp.code # 201 /\ uploads'[u].resp.code = 201)
                  => uploads[u].thumbnail_id[1] \in DOMAIN thumbnails
       /\ \A t \in DOMAIN tasks :
              ( /\ tasks[t].pc \in {"query_ready", "query_failed"}
                /\ tasks'[t].pc = "done" )
                  => tasks[t].image_id \notin DOMAIN images
       /\ \A u \in DOMAIN uploads :
              ( /\ uploads[u].resp.code = 201
                /\ lastResp'.op = "status"
                /\ lastResp'.id = uploads[u].thumbnail_id[1]
                /\ lastResp'.code = 404 )
                  => uploads[u].image_id[1] \notin DOMAIN images]_vars

\* the owner's query right after the 201 found the job, its worker not yet
\* started, while another worker's lookup had found its own job
C11_Witness ==
    /\ lastResp.op = "status" /\ lastResp.code = 200
    /\ lastResp.id \in DOMAIN tasks
    /\ tasks[lastResp.id].pc = "scheduled"
    /\ \E t \in DOMAIN tasks : tasks[t].pc = "commit_ready"


\* the paths under uploads/ that hold an original
Originals == {p \in DOMAIN files : p[1] = UPLOAD_DIR}

\* what one answered upload has produced: its own file, its own images key,
\* its own thumbnails key and the one task for that key
ProducedOnce(u) ==
    LET r == uploads[u]
        i == r.image_id[1]
        t == r.thumbnail_id[1]
    IN /\ r.filepath[1] \in Originals
       /\ Cardinality({v \in DOMAIN uploads : uploads[v].filepath = r.filepath}) = 1
       /\ Cardinality({v \in DOMAIN uploads : uploads[v].image_id = r.image_id}) = 1
       /\ Cardinality({v \in DOMAIN uploads :
                          uploads[v].thumbnail_id = r.thumbnail_id}) = 1
       /\ Cardinality({k \in DOMAIN tasks : tasks[k].image_id = i}) = 1
       /\ t \in DOMAIN tasks
       /\ tasks[t].thumbnail_id = t
       /\ tasks[t].image_path = r.filepath[1]
       /\ tasks[t].width = 500 /\ tasks[t].height = 500
       /\ Cardinality({k \in DOMAIN thumbnails : thumbnails[k].image_id = i})
             = IF i \in DOMAIN images THEN 1 ELSE 0

(* C12: each answered upload has produced exactly one original file, one    *)
(* images row, one thumbnails row (inserted pending with box 500x500) and   *)
(* one task for that row; the row is changed at most once, by that task     *)
(* finishing, and a task never starts over or runs again.                   *)
C12_OneOfEach ==
    /\ [](\A u \in DOMAIN uploads : uploads[u].resp.code = 201 => ProducedOnce(u))
    /\ [](Cardinality(DOMAIN tasks)
            = Cardinality({u \in DOMAIN uploads : uploads[u].resp.code = 201}))
    /\ [](Cardinality(Originals)
            = Cardinality({u \in DOMAIN uploads : uploads[u].filepath # None}))
    /\ [][/\ \A t \in DOMAIN thumbnails' \ DOMAIN thumbnails :
                 /\ thumbnails'[t].status = "pending"
                 /\ thumbnails'[t].width = Some(500)
                 /\ thumbnails'[t].height = Some(500)
                 /\ thumbnails'[t].path = None
          /\ \A t \in DOMAIN thumbnails \cap DOMAIN thumbnails' :
                 thumbnails'[t] # thumbnails[t] =>
                    /\ thumbnails[t].status = "pending"
                    /\ t \in DOMAIN tasks
                    /\ tasks[t].pc \in {"commit_ready", "commit_failed"}
                    /\ tasks'[t].pc = "done"
          /\ \A t \in DOMAIN tasks :
                 /\ t \in DOMAIN tasks'
                 /\ tasks[t].pc # "scheduled" => tasks'[t].pc # "scheduled"
                 /\ tasks[t].pc \in Finished => tasks'[t] = tasks[t]
          /\ \A p \in Originals : p \in DOMAIN files' /\ files'[p] = files[p]]_vars

\* both uploads were answered 201 and both jobs were changed by their tasks,
\* which have ended
C12_Witness ==
    /\ \A u \in 1 .. 2 : u \in DOMAIN uploads /\ uploads[u].resp.code = 201
    /\ \E t1, t2 \in DOMAIN thumbnails :
          /\ thumbnails[t1].status = "ready" /\ tasks[t1].pc = "done"
          /\ thumbnails[t2].status = "failed" /\ tasks[t2].pc = "done"


\* the thumbnail written for a task and the dimensions on its ready row
\* are the size generate_thumbnail returned
RecordedAs(t, out) ==
    LET k == tasks[t]
        thumbnail_path == << THUMBNAIL_DIR, k.image_id, k.width, k.height >>
    IN /\ thumbnail_path \in DOMAIN files
       /\ files[thumbnail_path].w = out[1] /\ files[thumbnail_path].h = out[2]
       /\ (t \in DOMAIN thumbnails /\ thumbnails[t].status = "ready") =>
             /\ thumbnails[t].width = Some(out[1])
             /\ thumbnails[t].height = Some(out[2])

(* C13: the resize never enlarges: the output is at least 1x1, no wider and *)
(* no taller than the source, and equal to the source when the source fits  *)
(* the box in both dimensions.                                              *)
C13_NeverEnlarges ==
    \A t \in DOMAIN tasks :
        tasks[t].actual # None =>
            LET src == files[tasks[t].image_path]
                out == tasks[t].actual[1]
            IN /\ 1 <= out[1] /\ out[1] <= src.w
               /\ 1 <= out[2] /\ out[2] <= src.h
               /\ (src.w <= tasks[t].width /\ src.h <= tasks[t].height)
                     => out = << src.w, src.h >>
               /\ RecordedAs(t, out)

\* a 400x300 source in a 500x500 box has given a ready job of 400x300
C13_Witness ==
    \E t \in DOMAIN thumbnails :
        /\ files[tasks[t].image_path].w = 400
        /\ files[tasks[t].image_path].h = 300
        /\ tasks[t].width = 500 /\ tasks[t].height = 500
        /\ thumbnails[t].status = "ready"
        /\ thumbnails[t].width = Some(400) /\ thumbnails[t].height = Some(300)

(* C14: a source larger than the box in some dimension comes out within the *)
(* box, with the side chosen by the scale min(bw/sw, bh/sh) equal to the    *)
(* box's and the other side less than 1 away from its exact scaled value;   *)
(* 2000x1000 in 500x500 is recorded as 500x250.                             *)
C14_FitsBox ==
    \A t \in DOMAIN tasks :
        tasks[t].actual # None =>
            LET sw == files[tasks[t].image_path].w
                sh == files[tasks[t].image_path].h
                bw == tasks[t].width
                bh == tasks[t].height
                out == tasks[t].actual[1]
            IN (sw > bw \/ sh > bh) =>
                  /\ out[1] <= bw /\ out[2] <= bh
                  /\ out[1] = bw \/ out[2] = bh
                  /\ bw * sh <= bh * sw =>
                        /\ out[1] = bw
                        /\ Abs(out[2] * sw - bw * sh) < sw
                  /\ bh * sw <= bw * sh =>
                        /\ out[2] = bh
                        /\ Abs(out[1] * sh - bh * sw) < sh
                  /\ (sw = 2000 /\ sh = 1000 /\ bw = 500 /\ bh = 500)
                        => out = << 500, 250 >>
                  /\ RecordedAs(t, out)

\* a 2000x1000 source in a 500x500 box has given a ready job of 500x250
C14_Witness ==
    \E t \in DOMAIN thumbnails :
        /\ files[tasks[t].image_path].w = 2000
        /\ files[tasks[t].image_path].h = 1000
        /\ tasks[t].width = 500 /\ tasks[t].height = 500
        /\ thumbnails[t].status = "ready"
        /\ thumbnails[t].width = Some(500) /\ thumbnails[t].height = Some(250)


\* the upload requests whose bytes were stored
Stored == {u \in DOMAIN uploads : uploads[u].filepath # None}

(* C15: any two uploads, also when they declare the same filename and run   *)
(* concurrently, are stored under different names: a token of their own     *)
(* followed by the lower-cased extension of the declared name; no upload    *)
(* overwrites another's bytes and no two images rows share a filename.      *)
C15_DistinctFilenames ==
    /\ [](\A u, v \in Stored :
             u # v => /\ uploads[u].filepath # uploads[v].filepath
                      /\ uploads[u].filepath[1][2][1] # uploads[v].filepath[1][2][1])
    /\ [](\A u \in Stored :
             /\ uploads[u].filepath[1][1] = "uploads"
             /\ uploads[u].filename = << "p", "h", "o", "t", "o", ".", "P", "N", "G" >>
                   => uploads[u].filepath[1][2][2] = << ".", "p", "n", "g" >>)
    /\ [](\A i, j \in DOMAIN images :
             i # j => images[i].filename # images[j].filename)
    /\ [][/\ \A u \in Stored' \ Stored :
                 uploads'[u].filepath[1] \notin DOMAIN files
          /\ \A p \in DOMAIN files :
                 p[1] = "uploads" => (p \in DOMAIN files' /\ files'[p] = files[p])]_vars

\* two uploads declaring the same filename hold different bytes under
\* different stored names, each with an images row
C15_Witness ==
    \E u, v \in Stored :
        /\ uploads[u].filename = uploads[v].filename
        /\ uploads[u].filepath # uploads[v].filepath
        /\ files[uploads[u].filepath[1]] # files[uploads[v].filepath[1]]
        /\ \E i, j \in DOMAIN images :
              /\ images[i].path = uploads[u].filepath
              /\ images[j].path = uploads[v].filepath


(* C16: a job that is observable as ready has its thumbnail file, of the    *)
(* recorded size, already written at its path, the write having happened in *)
(* an earlier step than the status update; and a job in a terminal status   *)
(* has a worker whose resize attempt has returned or raised.                *)
C16_WrittenBeforeReady ==
    /\ [](\A t \in DOMAIN thumbnails :
             /\ thumbnails[t].status \in Terminal =>
                   /\ t \in DOMAIN tasks
                   /\ tasks[t].pc # "scheduled"
                   /\ tasks[t].outcome # "none"
             /\ thumbnails[t].status = "ready" =>
                   /\ tasks[t].outcome = "ok"
                   /\ thumbnails[t].path # None
                   /\ thumbnails[t].path[1] \in DOMAIN files
                   /\ files[thumbnails[t].path[1]].decodable
                   /\ Some(files[thumbnails[t].path[1]].w) = thumbnails[t].width
                   /\ Some(files[thumbnails[t].path[1]].h) = thumbnails[t].height
             /\ thumbnails[t].status = "failed" =>
                   tasks[t].outcome \in GenerationFailures)
    /\ [][\A t \in DOMAIN thumbnails' :
             (thumbnails'[t].status = "ready"
                 /\ (t \notin DOMAIN thumbnails \/ thumbnails[t].status # "ready"))
             => /\ thumbnails'[t].path[1] \in DOMAIN files
                /\ files' = files
                /\ tasks[t].outcome = "ok"]_vars

\* one worker has written its file and marked its job ready while another's
\* resize has raised and its job is failed
C16_Witness ==
    \E t1, t2 \in DOMAIN thumbnails :
        /\ thumbnails[t1].status = "ready"
        /\ thumbnails[t1].path[1] \in DOMAIN files
        /\ tasks[t1].pc = "done"
        /\ thumbnails[t2].status = "failed"
        /\ tasks[t2].outcome \in GenerationFailures




\* the jobs that exist before and after a step
Surviving == DOMAIN thumbnails \cap DOMAIN thumbnails'

(* C17: a job's record is changed only by the commit of its own worker run, *)
(* and that step changes no other job; every other step (an upload, another *)
(* job's worker, a status query, a metadata read, a download) leaves every  *)
(* job it does not delete as it was.  So a job whose worker has not run its *)
(* resize is pending with no path, however long that lasts.                 *)
C17_OnlyOwnWorkerMutates ==
    /\ [][\A t \in Surviving :
             thumbnails'[t] # thumbnails[t] =>
                /\ t \in DOMAIN tasks
                /\ tasks[t].thumbnail_id = t
                /\ tasks[t].pc \in {"commit_ready", "commit_failed"}
                /\ tasks'[t].pc = "done"
                /\ \A s \in DOMAIN tasks \ {t} : tasks'[s] = tasks[s]
                /\ \A s \in Surviving \ {t} : thumbnails'[s] = thumbnails[s]]_vars
    /\ [](\A t \in DOMAIN thumbnails :
             (t \notin DOMAIN tasks \/ tasks[t].pc = "scheduled") =>
                /\ thumbnails[t].status = "pending"
                /\ thumbnails[t].path = None)

\* the job of a later upload is terminal while the job of an earlier one is
\* pending with its worker not yet run, after a download has copied a file
C17_Witness ==
    \E u, v \in DOMAIN uploads :
        /\ u < v
        /\ uuid4(u, 3) \in DOMAIN thumbnails
        /\ uuid4(v, 3) \in DOMAIN thumbnails
        /\ thumbnails[uuid4(u, 3)].status = "pending"
        /\ uuid4(u, 3) \in DOMAIN tasks
        /\ tasks[uuid4(u, 3)].pc = "scheduled"
        /\ thumbnails[uuid4(v, 3)].status \in Terminal
        /\ \E p \in DOMAIN files : p[1] = DOWNLOAD_DIR /\ files[p].decodable


\* the path a worker run writes
TargetOf(t) ==
    << THUMBNAIL_DIR, tasks[t].image_id, tasks[t].width, tasks[t].height >>

\* the worker runs and the uploads that have not finished
RunningTasks == {t \in DOMAIN tasks : tasks[t].pc \notin {"done", "raised"}}
RunningUploads == {u \in Stored : uploads[u].pc \notin {"done", "error"}}

(* C18: no file path is the target of two writers at a time: the uploads    *)
(* write paths of their own, workers of different images write different    *)
(* paths, and no copy made by a download goes to a path that another        *)
(* handler or worker running at the same time writes.                       *)
C18_NoSharedWriteTarget ==
    /\ \A u, v \in Stored :
          u # v => uploads[u].filepath # uploads[v].filepath
    /\ \A s, t \in DOMAIN tasks :
          tasks[s].image_id # tasks[t].image_id => TargetOf(s) # TargetOf(t)
    /\ \A s, t \in RunningTasks : s # t => TargetOf(s) # TargetOf(t)
    /\ \A c \in BagToSet(copies) :
          /\ CopiesIn(c, copies) = 1
          /\ \A d \in BagToSet(copies) : d # c => d.dest_path # c.dest_path
          /\ \A t \in RunningTasks : TargetOf(t) # c.dest_path
          /\ \A u \in RunningUploads : uploads[u].filepath[1] # c.dest_path


\* job t is settled: terminal, or deleted together with its image
Settled(t) ==
    t \in DOMAIN thumbnails => thumbnails[t].status \in Terminal

(* C19: every worker run that was scheduled finishes, and once it has       *)
(* finished its job is not pending; under weak fairness of the worker's     *)
(* steps every job that was created is eventually ready, failed, or deleted *)
(* together with its image.                                                 *)
C19_EveryJobSettles ==
    /\ [](\A t \in DOMAIN tasks : tasks[t].pc \in Finished => Settled(t))
    /\ \A t \in JobIds :
          (t \in DOMAIN tasks) ~> (t \in DOMAIN tasks /\ tasks[t].pc \in Finished)
    /\ \A t \in JobIds :
          (t \in DOMAIN thumbnails) ~> Settled(t)

\* every upload's worker has finished: one job is ready, and another was
\* deleted with its image while its worker ran
C19_Witness ==
    /\ Len(uploads) = MaxUploads
    /\ DOMAIN tasks # {}
    /\ \A t \in DOMAIN tasks : tasks[t].pc \in Finished
    /\ \E t \in DOMAIN tasks :
          t \in DOMAIN thumbnails /\ thumbnails[t].status = "ready"
    /\ \E t \in DOMAIN tasks :
          t \notin DOMAIN thumbnails /\ tasks[t].outcome # "none"


\* the jobs of image i
JobsOf(ths, i) == {t \in DOMAIN ths : ths[t].image_id = i}

(* C20: every thumbnail job references an image that exists: a job is       *)
(* inserted only when its image's row is already committed, the step that   *)
(* deletes an image deletes all of its jobs, and a job disappears only in   *)
(* a step that deletes its image.                                           *)
C20_JobHasImage ==
    /\ [](\A t \in DOMAIN thumbnails : thumbnails[t].image_id \in DOMAIN images)
    /\ [][/\ \A t \in DOMAIN thumbnails' \ DOMAIN thumbnails :
                 thumbnails'[t].image_id \in DOMAIN images
          /\ \A i \in DOMAIN images \ DOMAIN images' :
                 JobsOf(thumbnails', i) = {}
          /\ \A t \in DOMAIN thumbnails \ DOMAIN thumbnails' :
                 /\ thumbnails[t].image_id \in DOMAIN images
                 /\ thumbnails[t].image_id \notin DOMAIN images'
          /\ \A t \in Surviving :
                 thumbnails'[t].image_id = thumbnails[t].image_id]_vars

\* one image was deleted and took its job with it, whose worker had been
\* scheduled, while another image and its job remain
C20_Witness ==
    \E u, v \in DOMAIN uploads :
        /\ uploads[u].image_id # None
        /\ uploads[u].image_id[1] \notin DOMAIN images
        /\ uuid4(u, 3) \in DOMAIN tasks
        /\ uuid4(u, 3) \notin DOMAIN thumbnails
        /\ uuid4(v, 3) \in DOMAIN thumbnails
        /\ thumbnails[uuid4(v, 3)].image_id \in DOMAIN images


(* C21: the bytes of an original are on disk before its images row exists,  *)
(* and the row carries their path: every images row has a non-null path     *)
(* under uploads/ at which uploaded bytes are stored, the step that inserts  *)
(* a row or schedules a worker finds the file already written, and the      *)
(* bytes at that path are never rewritten or removed afterwards.            *)
C21_BytesBeforeRecord ==
    /\ [](\A i \in DOMAIN images :
             /\ images[i].path # None
             /\ images[i].path[1][1] = UPLOAD_DIR
             /\ images[i].path[1][2] = images[i].filename
             /\ images[i].path[1] \in DOMAIN files
             /\ files[images[i].path[1]] \in Contents)
    /\ [](\A t \in DOMAIN tasks : tasks[t].image_path \in DOMAIN files)
    /\ [][/\ \A i \in DOMAIN images' \ DOMAIN images :
                 /\ images'[i].path[1] \in DOMAIN files
                 /\ files' = files
          /\ \A t \in DOMAIN tasks' \ DOMAIN tasks :
                 /\ tasks'[t].image_path \in DOMAIN files
                 /\ tasks'[t].image_id \in DOMAIN images
                 /\ images[tasks'[t].image_id].path = Some(tasks'[t].image_path)
          /\ \A i \in DOMAIN images \cap DOMAIN images' :
                 /\ images'[i].path = images[i].path
                 /\ files'[images[i].path[1]] = files[images[i].path[1]]]_vars

\* a worker has been scheduled with the path of its image's row, where the
\* uploaded bytes of a decodable image are stored, and has resized them
C21_Witness ==
    \E t \in DOMAIN tasks :
        /\ tasks[t].image_id \in DOMAIN images
        /\ images[tasks[t].image_id].path = Some(tasks[t].image_path)
        /\ files[tasks[t].image_path].decodable
        /\ tasks[t].outcome = "ok"

====
